---- MODULE Spec2Model ----
(***************************************************************************)
(* Orbital, the display server of crates/orbital/main.rs: the redraw       *)
(* scheduler, the window registry with its z-order, the input router and   *)
(* the scheme operations open / read / write / fpath / close.              *)
(*                                                                         *)
(* The whole OrbitalScheme struct is one record, `scheme`, and every       *)
(* method is an operator from a scheme record to a record holding the new  *)
(* scheme and the method's result.  Each action of Next is one call of a   *)
(* method made while the scheme mutex is held.                             *)
(***************************************************************************)
EXTENDS Integers, Sequences, FiniteSets, TLC

VARIABLES
    scheme,     \* the OrbitalScheme behind the mutex
    last,       \* the call made last: its name, its argument and its result
    driver      \* the mutex, the two loops of main and their transports

vars == <<scheme, last, driver>>

----------------------------------------------------------------------------
(* Bounds of the model *)

\* isize is modelled IdBits wide: next_id ranges over -2^(IdBits-1) .. 2^(IdBits-1)-1
IdBits == 3
\* the request loop is not offered an open once this many handles are open
MaxWindows == 2
\* no call is offered that would leave more rectangles than this scheduled
MaxRedraws == 2
\* no event is offered that would leave more events than this queued in a window
MaxQueue == 1
\* the transport delivers this many requests in all
MaxRequests == 3
\* the transports deliver batches of at most this many records
MaxBatch == 2
\* the client of SpecClip has at most this many windows open
MaxClipWindows == 1
\* the clients of SpecDrag open this many windows in all
MaxDragOpens == 2
\* resolution reported by the display: (path of display:)
ScreenW == 80
ScreenH == 100
\* size of /ui/cursor.bmp
CursorW == 12
CursorH == 16

----------------------------------------------------------------------------
(* Program constants *)

\* height of the title bar above a window's content
TitleH == 18
\* step and origin of the cascade of auto-placed windows
CascadeStep == 20
\* scancode of F1
K_F1 == 59
\* errno of a bad file descriptor
EBADF == 9
\* width of the close control at the right end of the title bar
ExitW == 10

EVENT_KEY == "k"
EVENT_MOUSE == "m"
EVENT_QUIT == "q"

\* syscall numbers and errno of the system crate, which is not among the
\* sources: a request's field `a` holds one of them on arrival
SYS_READ == 3
SYS_WRITE == 4
SYS_OPEN == 5
SYS_CLOSE == 6
SYS_FPATH == 3001
\* errno of a call the scheme does not know
ENOSYS == 38

----------------------------------------------------------------------------
(* Small helpers *)

min(a, b) == IF a < b THEN a ELSE b
max(a, b) == IF a > b THEN a ELSE b

Pow2(n) == 2 ^ n

\* two's complement wrap of an integer to an isize of IdBits bits
WrapIsize(n) ==
    LET m == n % Pow2(IdBits)
    IN  IF m >= Pow2(IdBits - 1) THEN m - Pow2(IdBits) ELSE m

\* the cast `isize as usize`
AsUsize(n) == n % Pow2(IdBits)

\* the cast `i64 as u8`
AsU8(n) == n % 256

\* the largest and the smallest i32
I32Max == 2147483647
I32Min == 0 - I32Max - 1

\* the sum of two i32 does not fit an i32
Overflows(a, b) ==
    \/ b > 0 /\ a > I32Max - b
    \/ b < 0 /\ a < I32Min - b

\* the sum of two i32 as a build without overflow checks computes it: in
\* two's complement, 2^32 less or more than the sum when that does not fit
AddI32(a, b) ==
    IF b > 0 /\ a > I32Max - b
    THEN (a - I32Max - 1) + (b - I32Max - 1)
    ELSE IF b < 0 /\ a < I32Min - b
    THEN (a + I32Max + 1) + (b + I32Max + 1)
    ELSE a + b

Range(s) == {s[i] : i \in 1..Len(s)}

Ok(v) == [ok |-> TRUE, val |-> v]
Err(e) == [ok |-> FALSE, val |-> e]

----------------------------------------------------------------------------
(* Rect *)

Rect(x, y, w, h) == [x |-> x, y |-> y, w |-> w, h |-> h]

area(r) == r.w * r.h

container(self, other) ==
    LET x == min(self.x, other.x)
        y == min(self.y, other.y)
    IN  Rect(x, y,
             max(self.x + self.w, other.x + other.w) - x,
             max(self.y + self.h, other.y + other.h) - y)

\* contains with the test of the rows left out
containsColumnsOnly(self, other) ==
    /\ self.x <= other.x
    /\ self.x + self.w >= other.x + other.w

contains(self, other) ==
    /\ self.x <= other.x
    /\ self.x + self.w >= other.x + other.w
    /\ self.y <= other.y
    /\ self.y + self.h >= other.y + other.h

\* the loop of schedule from entry i on: the first entry that contains the
\* request or merges cheaply ends the scan
RECURSIVE scheduleFrom(_, _, _)
scheduleFrom(redraws, request, i) ==
    IF i > Len(redraws)
    THEN Append(redraws, request)
    ELSE IF contains(redraws[i], request)
         THEN redraws
         ELSE LET c == container(redraws[i], request)
              IN  IF area(c) < area(redraws[i]) + area(request)
                  THEN [redraws EXCEPT ![i] = c]
                  ELSE scheduleFrom(redraws, request, i + 1)

\* schedule with the containment test left out
RECURSIVE scheduleFromUnchecked(_, _, _)
scheduleFromUnchecked(redraws, request, i) ==
    IF i > Len(redraws)
    THEN Append(redraws, request)
    ELSE LET c == container(redraws[i], request)
         IN  IF area(c) < area(redraws[i]) + area(request)
             THEN [redraws EXCEPT ![i] = c]
             ELSE scheduleFromUnchecked(redraws, request, i + 1)

scheduleUnchecked(redraws, x, y, w, h) ==
    scheduleFromUnchecked(redraws, Rect(x, y, w, h), 1)

\* schedule merging also when the union is just as large as the two together
RECURSIVE scheduleFromEager(_, _, _)
scheduleFromEager(redraws, request, i) ==
    IF i > Len(redraws)
    THEN Append(redraws, request)
    ELSE IF contains(redraws[i], request)
         THEN redraws
         ELSE LET c == container(redraws[i], request)
              IN  IF area(c) <= area(redraws[i]) + area(request)
                  THEN [redraws EXCEPT ![i] = c]
                  ELSE scheduleFromEager(redraws, request, i + 1)

scheduleEager(redraws, x, y, w, h) ==
    scheduleFromEager(redraws, Rect(x, y, w, h), 1)

schedule(redraws, x, y, w, h) == scheduleFrom(redraws, Rect(x, y, w, h), 1)

----------------------------------------------------------------------------
(* Event (kernel/common/event.rs) *)

Event(code, a, b, c) == [code |-> code, a |-> a, b |-> b, c |-> c]

QuitEvent == Event(EVENT_QUIT, 0, 0, 0)

\* size in bytes of one Event: four i64 fields
EventSize == 32

----------------------------------------------------------------------------
(* Window (crates/orbital/window.rs) *)

WindowNew(x, y, w, h, title) ==
    [x |-> x, y |-> y, w |-> w, h |-> h, title |-> title, events |-> <<>>]

\* the content area holds the point
WindowContains(window, x, y) ==
    /\ window.x <= x /\ x < window.x + window.w
    /\ window.y <= y /\ y < window.y + window.h

\* the title bar, TitleH tall above the content area, holds the point
WindowTitleContains(window, x, y) ==
    /\ window.x <= x /\ x < window.x + window.w
    /\ window.y - TitleH <= y /\ y < window.y

\* the close control, the right end of the title bar, holds the point
WindowExitContains(window, x, y) ==
    /\ window.x + window.w - ExitW <= x /\ x < window.x + window.w
    /\ window.y - TitleH <= y /\ y < window.y

\* window.event(event): the event joins the pending-input queue
WindowEvent(window, event) ==
    [window EXCEPT !.events = Append(@, event)]

\* window.read(buf): as many whole queued events as fit a buffer of
\* `cap` events leave the queue; the result is their size in bytes
WindowRead(window, cap) ==
    LET n == min(cap, Len(window.events))
    IN  [window |-> [window EXCEPT !.events = SubSeq(@, n + 1, Len(@))],
         ret    |-> Ok(n * EventSize),
         data   |-> SubSeq(window.events, 1, n)]

\* window.write(buf): pixel data of the given length is taken in
WindowWrite(window, len) ==
    [window |-> window, ret |-> Ok(len)]

\* window.path(buf): the identifying path of the window
WindowPath(window) ==
    Ok(<<window.x, window.y, window.w, window.h, window.title>>)

\* the rectangle of a window with its title bar, as every caller of
\* schedule computes it
WindowRect(window) ==
    Rect(window.x, window.y - TitleH, window.w, window.h + TitleH)

----------------------------------------------------------------------------
(* OrbitalScheme *)

new(width, height) ==
    [ width    |-> width,
      height   |-> height,
      cursor_x |-> 0,
      cursor_y |-> 0,
      dragging |-> FALSE,
      drag_x   |-> 0,
      drag_y   |-> 0,
      next_id  |-> 1,
      next_x   |-> CascadeStep,
      next_y   |-> CascadeStep,
      order    |-> <<>>,
      windows  |-> <<>>,
      redraws  |-> <<Rect(0, 0, width, height)>>,
      todo     |-> <<>> ]

\* BTreeMap::insert and BTreeMap::remove on the window mapping
MapInsert(windows, id, window) ==
    [i \in (DOMAIN windows) \cup {id} |-> IF i = id THEN window ELSE windows[i]]

\* a remove that leaves the map as it is
MapRemoveNone(windows, id) == [i \in DOMAIN windows |-> windows[i]]

MapRemove(windows, id) ==
    [i \in (DOMAIN windows) \ {id} |-> windows[i]]

\* VecDeque::retain(|&e| e != id)
RetainNot(order, id) == SelectSeq(order, LAMBDA e : e /= id)

\* VecDeque::remove(index), index from 0: the deque without that entry
RemoveAt(order, index) ==
    SubSeq(order, 1, index) \o SubSeq(order, index + 2, Len(order))

\* the id pushed at the back
PushBack(order, id) == Append(order, id)

\* VecDeque::push_front(id)
PushFront(order, id) == <<id>> \o order

(* A path is the sequence of its segments between the slashes; a segment   *)
(* is its text, with the i32 it parses to when it is a number.             *)
Num(n, text) == [i32 |-> TRUE, n |-> n, s |-> text]
Txt(text) == [i32 |-> FALSE, n |-> 0, s |-> text]

\* parts.next().unwrap_or("")
PartOr(parts, i) == IF i <= Len(parts) THEN parts[i] ELSE Txt("")

\* .parse::<i32>().unwrap_or(0)
ParseI32(part) == IF part.i32 THEN part.n ELSE 0

\* the title: the fifth part and every later one, rejoined with '/'
TitleOf(parts) ==
    IF Len(parts) < 5 THEN <<"">>
    ELSE [i \in 1..(Len(parts) - 4) |-> parts[i + 4].s]

\* the id an open returns and the counter it leaves
NextIdAfter(next_id) ==
    LET n == WrapIsize(next_id + 1)
    IN  IF n < 0 THEN 1 ELSE n

\* the cascade counter going back only once past the limit
CascadeAfterPast(next, limit) ==
    IF next + CascadeStep + CascadeStep > limit
    THEN CascadeStep
    ELSE next + CascadeStep

\* the cascade counter after an auto-placed open
CascadeAfter(next, limit) ==
    IF next + CascadeStep + CascadeStep >= limit
    THEN CascadeStep
    ELSE next + CascadeStep

\* open stepping the cascade counters whether it places the window or not
openAlwaysCascades(s, path) ==
    LET parts  == Tail(path)
        px     == ParseI32(PartOr(parts, 1))
        py     == ParseI32(PartOr(parts, 2))
        width  == ParseI32(PartOr(parts, 3))
        height == ParseI32(PartOr(parts, 4))
        title  == TitleOf(parts)
        id     == AsUsize(s.next_id)
        auto   == px < 0 /\ py < 0
        x      == IF auto THEN s.next_x ELSE px
        y      == IF auto THEN s.next_y ELSE py
    IN  [ s |-> [s EXCEPT
                  !.next_id = NextIdAfter(s.next_id),
                  !.next_x  = CascadeAfter(s.next_x, s.width),
                  !.next_y  = CascadeAfter(s.next_y, s.height),
                  !.order   = PushFront(@, id),
                  !.windows = MapInsert(@, id, WindowNew(x, y, width, height, title)),
                  !.redraws = schedule(@, x, y - TitleH, width, height + TitleH)],
          ret |-> Ok(id) ]

open(s, path) ==
    LET parts  == Tail(path)
        px     == ParseI32(PartOr(parts, 1))
        py     == ParseI32(PartOr(parts, 2))
        width  == ParseI32(PartOr(parts, 3))
        height == ParseI32(PartOr(parts, 4))
        title  == TitleOf(parts)
        id     == AsUsize(s.next_id)
        auto   == px < 0 /\ py < 0
        x      == IF auto THEN s.next_x ELSE px
        y      == IF auto THEN s.next_y ELSE py
    IN  [ s |-> [s EXCEPT
                  !.next_id = NextIdAfter(s.next_id),
                  !.next_x  = IF auto THEN CascadeAfter(s.next_x, s.width) ELSE @,
                  !.next_y  = IF auto THEN CascadeAfter(s.next_y, s.height) ELSE @,
                  !.order   = PushFront(@, id),
                  !.windows = MapInsert(@, id, WindowNew(x, y, width, height, title)),
                  !.redraws = schedule(@, x, y - TitleH, width, height + TitleH)],
          ret |-> Ok(id) ]

\* read taking a handle that is not open for a window with nothing queued
readAbsentEmpty(s, id, cap) ==
    IF id \in DOMAIN s.windows
    THEN LET r == WindowRead(s.windows[id], cap)
         IN  [s |-> [s EXCEPT !.windows[id] = r.window], ret |-> r.ret]
    ELSE [s |-> s, ret |-> Ok(0)]

read(s, id, cap) ==
    IF id \in DOMAIN s.windows
    THEN LET r == WindowRead(s.windows[id], cap)
         IN  [s |-> [s EXCEPT !.windows[id] = r.window], ret |-> r.ret]
    ELSE [s |-> s, ret |-> Err(EBADF)]

\* write scheduling no damage
writeUnscheduled(s, id, len) ==
    IF id \in DOMAIN s.windows
    THEN LET r == WindowWrite(s.windows[id], len)
         IN  [s |-> [s EXCEPT !.windows[id] = r.window], ret |-> r.ret]
    ELSE [s |-> s, ret |-> Err(EBADF)]

write(s, id, len) ==
    IF id \in DOMAIN s.windows
    THEN LET window == s.windows[id]
             r == WindowWrite(window, len)
         IN  [s |-> [s EXCEPT
                      !.redraws = schedule(@, window.x, window.y - TitleH,
                                           window.w, window.h + TitleH),
                      !.windows[id] = r.window],
              ret |-> r.ret]
    ELSE [s |-> s, ret |-> Err(EBADF)]

fpath(s, id) ==
    IF id \in DOMAIN s.windows
    THEN [s |-> s, ret |-> WindowPath(s.windows[id])]
    ELSE [s |-> s, ret |-> Err(EBADF)]

\* close answering Ok for an id that is not open
closeLenient(s, id) ==
    LET order == RetainNot(s.order, id)
    IN  IF id \in DOMAIN s.windows
        THEN LET window == s.windows[id]
             IN  [s |-> [s EXCEPT
                          !.order   = order,
                          !.windows = MapRemove(@, id),
                          !.redraws = schedule(@, window.x, window.y - TitleH,
                                               window.w, window.h + TitleH)],
                  ret |-> Ok(0)]
        ELSE [s |-> [s EXCEPT !.order = order], ret |-> Ok(0)]

close(s, id) ==
    LET order == RetainNot(s.order, id)
    IN  IF id \in DOMAIN s.windows
        THEN LET window == s.windows[id]
             IN  [s |-> [s EXCEPT
                          !.order   = order,
                          !.windows = MapRemove(@, id),
                          !.redraws = schedule(@, window.x, window.y - TitleH,
                                               window.w, window.h + TitleH)],
                  ret |-> Ok(0)]
        ELSE [s |-> [s EXCEPT !.order = order], ret |-> Err(EBADF)]

----------------------------------------------------------------------------
(* OrbitalScheme::event, the input router *)

\* what the scan of the z-order of a mouse event that is no drag leaves
ScanResult(windows, focus, dragging, drag_x, drag_y) ==
    [windows |-> windows, focus |-> focus, dragging |-> dragging,
     drag_x |-> drag_x, drag_y |-> drag_y]

\* the content area of entry k of the z-order holds the point: the window
\* gets the event in its own coordinates and, on a press, is the focus
contentHit(s, event, k) ==
    LET id == s.order[k]
        window == s.windows[id]
        window_event == [event EXCEPT !.a = @ - window.x, !.b = @ - window.y]
    IN  ScanResult([s.windows EXCEPT ![id] = WindowEvent(@, window_event)],
                   IF event.c > 0 THEN k - 1 ELSE 0,
                   s.dragging, s.drag_x, s.drag_y)

\* the title hit starting the drag without taking the focus
titleHitUnfocused(s, event, k) ==
    LET id == s.order[k]
        window == s.windows[id]
    IN  IF event.c > 0
        THEN IF WindowExitContains(window, event.a, event.b)
             THEN ScanResult([s.windows EXCEPT ![id] = WindowEvent(@, QuitEvent)],
                             0, s.dragging, s.drag_x, s.drag_y)
             ELSE ScanResult(s.windows, 0, TRUE, s.cursor_x, s.cursor_y)
        ELSE ScanResult(s.windows, 0, s.dragging, s.drag_x, s.drag_y)

\* the title hit taking the focus with no button held
titleHitHover(s, event, k) ==
    LET id == s.order[k]
        window == s.windows[id]
    IN  IF WindowExitContains(window, event.a, event.b) /\ event.c > 0
        THEN ScanResult([s.windows EXCEPT ![id] = WindowEvent(@, QuitEvent)],
                        k - 1, s.dragging, s.drag_x, s.drag_y)
        ELSE ScanResult(s.windows, k - 1, event.c > 0 \/ s.dragging,
                        IF event.c > 0 THEN s.cursor_x ELSE s.drag_x,
                        IF event.c > 0 THEN s.cursor_y ELSE s.drag_y)

\* the title hit starting a drag also on the close control
titleHitExitDrags(s, event, k) ==
    LET id == s.order[k]
        window == s.windows[id]
    IN  IF event.c > 0
        THEN IF WindowExitContains(window, event.a, event.b)
             THEN ScanResult([s.windows EXCEPT ![id] = WindowEvent(@, QuitEvent)],
                             k - 1, TRUE, s.cursor_x, s.cursor_y)
             ELSE ScanResult(s.windows, k - 1, TRUE, s.cursor_x, s.cursor_y)
        ELSE ScanResult(s.windows, 0, s.dragging, s.drag_x, s.drag_y)

\* the title bar of entry k of the z-order holds the point: on a press the
\* window is the focus, and is told to quit when the press is on its close
\* control, dragged otherwise
titleHit(s, event, k) ==
    LET id == s.order[k]
        window == s.windows[id]
    IN  IF event.c > 0
        THEN IF WindowExitContains(window, event.a, event.b)
             THEN ScanResult([s.windows EXCEPT ![id] = WindowEvent(@, QuitEvent)],
                             k - 1, s.dragging, s.drag_x, s.drag_y)
             ELSE ScanResult(s.windows, k - 1, TRUE, s.cursor_x, s.cursor_y)
        ELSE ScanResult(s.windows, 0, s.dragging, s.drag_x, s.drag_y)

\* the scan giving the event to the rearmost window that holds the point
scanFromBack(s, event, k) ==
    LET hits == {j \in k..Len(s.order) :
                    /\ s.order[j] \in DOMAIN s.windows
                    /\ \/ WindowContains(s.windows[s.order[j]], event.a, event.b)
                       \/ WindowTitleContains(s.windows[s.order[j]], event.a, event.b)}
    IN  IF hits = {}
        THEN ScanResult(s.windows, 0, s.dragging, s.drag_x, s.drag_y)
        ELSE LET j == CHOOSE h \in hits : \A o \in hits : o <= h
             IN  IF WindowContains(s.windows[s.order[j]], event.a, event.b)
                 THEN contentHit(s, event, j)
                 ELSE titleHit(s, event, j)

\* the loop over self.order from entry k on (k counts from 1, the code's i
\* from 0); the first window whose content or title bar holds the point
\* ends the scan
RECURSIVE scanFrom(_, _, _)
scanFrom(s, event, k) ==
    IF k > Len(s.order)
    THEN ScanResult(s.windows, 0, s.dragging, s.drag_x, s.drag_y)
    ELSE LET id == s.order[k]
         IN  IF id \notin DOMAIN s.windows
             THEN scanFrom(s, event, k + 1)
             ELSE IF WindowContains(s.windows[id], event.a, event.b)
             THEN contentHit(s, event, k)
             ELSE IF WindowTitleContains(s.windows[id], event.a, event.b)
             THEN titleHit(s, event, k)
             ELSE scanFrom(s, event, k + 1)

\* the cursor following a mouse event with only its new rectangle scheduled
moveCursorNewOnly(s, event) ==
    IF event.a /= s.cursor_x \/ event.b /= s.cursor_y
    THEN [s EXCEPT
           !.cursor_x = event.a,
           !.cursor_y = event.b,
           !.redraws  = schedule(@, event.a, event.b, CursorW, CursorH)]
    ELSE s

\* the cursor follows a mouse event: both cursor rectangles are scheduled
moveCursor(s, event) ==
    IF event.a /= s.cursor_x \/ event.b /= s.cursor_y
    THEN [s EXCEPT
           !.cursor_x = event.a,
           !.cursor_y = event.b,
           !.redraws  = schedule(
                            schedule(@, s.cursor_x, s.cursor_y, CursorW, CursorH),
                            event.a, event.b, CursorW, CursorH)]
    ELSE s

\* a drag that moves the window along its row only
dragStepRow(s, event) ==
    IF event.c > 0
    THEN IF Len(s.order) > 0
         THEN LET id == Head(s.order)
              IN  IF id \in DOMAIN s.windows
                  THEN IF s.drag_x /= s.cursor_x \/ s.drag_y /= s.cursor_y
                       THEN LET window == s.windows[id]
                                x == window.x + (s.cursor_x - s.drag_x)
                            IN  [s EXCEPT
                                  !.redraws = schedule(
                                      schedule(@, window.x, window.y - TitleH,
                                               window.w, window.h + TitleH),
                                      x, window.y - TitleH, window.w,
                                      window.h + TitleH),
                                  !.windows[id].x = x,
                                  !.drag_x = s.cursor_x,
                                  !.drag_y = s.cursor_y]
                       ELSE s
                  ELSE [s EXCEPT !.dragging = FALSE]
         ELSE [s EXCEPT !.dragging = FALSE]
    ELSE [s EXCEPT !.dragging = FALSE]

\* a drag that ends when the front window is not the one whose title bar
\* holds the anchor
dragStepOwn(s, event) ==
    IF event.c > 0
    THEN IF Len(s.order) > 0
         THEN LET id == Head(s.order)
              IN  IF /\ id \in DOMAIN s.windows
                     /\ WindowTitleContains(s.windows[id], s.drag_x, s.drag_y)
                  THEN IF s.drag_x /= s.cursor_x \/ s.drag_y /= s.cursor_y
                       THEN LET window == s.windows[id]
                                x == window.x + (s.cursor_x - s.drag_x)
                                y == window.y + (s.cursor_y - s.drag_y)
                            IN  [s EXCEPT
                                  !.redraws = schedule(
                                      schedule(@, window.x, window.y - TitleH,
                                               window.w, window.h + TitleH),
                                      x, y - TitleH, window.w, window.h + TitleH),
                                  !.windows[id].x = x,
                                  !.windows[id].y = y,
                                  !.drag_x = s.cursor_x,
                                  !.drag_y = s.cursor_y]
                       ELSE s
                  ELSE [s EXCEPT !.dragging = FALSE]
         ELSE [s EXCEPT !.dragging = FALSE]
    ELSE [s EXCEPT !.dragging = FALSE]

\* a drag that leaves its anchor where the press put it
dragStepKeepsAnchor(s, event) ==
    IF event.c > 0
    THEN IF Len(s.order) > 0
         THEN LET id == Head(s.order)
              IN  IF id \in DOMAIN s.windows
                  THEN IF s.drag_x /= s.cursor_x \/ s.drag_y /= s.cursor_y
                       THEN LET window == s.windows[id]
                                x == window.x + (s.cursor_x - s.drag_x)
                                y == window.y + (s.cursor_y - s.drag_y)
                            IN  [s EXCEPT
                                  !.redraws = schedule(
                                      schedule(@, window.x, window.y - TitleH,
                                               window.w, window.h + TitleH),
                                      x, y - TitleH, window.w, window.h + TitleH),
                                  !.windows[id].x = x,
                                  !.windows[id].y = y]
                       ELSE s
                  ELSE [s EXCEPT !.dragging = FALSE]
         ELSE [s EXCEPT !.dragging = FALSE]
    ELSE [s EXCEPT !.dragging = FALSE]

\* a mouse event while self.dragging
dragStep(s, event) ==
    IF event.c > 0
    THEN IF Len(s.order) > 0
         THEN LET id == Head(s.order)
              IN  IF id \in DOMAIN s.windows
                  THEN IF s.drag_x /= s.cursor_x \/ s.drag_y /= s.cursor_y
                       THEN LET window == s.windows[id]
                                x == window.x + (s.cursor_x - s.drag_x)
                                y == window.y + (s.cursor_y - s.drag_y)
                            IN  [s EXCEPT
                                  !.redraws = schedule(
                                      schedule(@, window.x, window.y - TitleH,
                                               window.w, window.h + TitleH),
                                      x, y - TitleH, window.w, window.h + TitleH),
                                  !.windows[id].x = x,
                                  !.windows[id].y = y,
                                  !.drag_x = s.cursor_x,
                                  !.drag_y = s.cursor_y]
                       ELSE s
                  ELSE [s EXCEPT !.dragging = FALSE]
         ELSE [s EXCEPT !.dragging = FALSE]
    ELSE [s EXCEPT !.dragging = FALSE]

\* a mouse event while not self.dragging
focusStep(s, event) ==
    LET r == scanFrom(s, event, 1)
        order == IF r.focus > 0 /\ r.focus < Len(s.order)
                 THEN PushFront(RemoveAt(s.order, r.focus), s.order[r.focus + 1])
                 ELSE s.order
    IN  [ s |-> [s EXCEPT
                  !.windows  = r.windows,
                  !.dragging = r.dragging,
                  !.drag_x   = r.drag_x,
                  !.drag_y   = r.drag_y,
                  !.order    = order],
          focus |-> r.focus ]

\* the router handing a keyboard event to every window
eventKeyToAll(s, ev) ==
    IF ev.code = EVENT_KEY
    THEN [ s |-> [s EXCEPT !.windows =
                     [id \in DOMAIN s.windows |-> WindowEvent(s.windows[id], ev)]],
           spawn |-> (AsU8(ev.b) = K_F1 /\ ev.c > 0),
           focus |-> 0 ]
    ELSE IF ev.code = EVENT_MOUSE
    THEN LET moved == moveCursor(s, ev)
         IN  IF moved.dragging
             THEN [s |-> dragStep(moved, ev), spawn |-> FALSE, focus |-> 0]
             ELSE LET f == focusStep(moved, ev)
                  IN  [s |-> f.s, spawn |-> FALSE, focus |-> f.focus]
    ELSE [s |-> s, spawn |-> FALSE, focus |-> 0]

event(s, ev) ==
    IF ev.code = EVENT_KEY
    THEN [ s |-> IF Len(s.order) > 0 /\ Head(s.order) \in DOMAIN s.windows
                 THEN [s EXCEPT !.windows[Head(s.order)] = WindowEvent(@, ev)]
                 ELSE s,
           spawn |-> (AsU8(ev.b) = K_F1 /\ ev.c > 0),
           focus |-> 0 ]
    ELSE IF ev.code = EVENT_MOUSE
    THEN LET moved == moveCursor(s, ev)
         IN  IF moved.dragging
             THEN [s |-> dragStep(moved, ev), spawn |-> FALSE, focus |-> 0]
             ELSE LET f == focusStep(moved, ev)
                  IN  [s |-> f.s, spawn |-> FALSE, focus |-> f.focus]
    ELSE [s |-> s, spawn |-> FALSE, focus |-> 0]

----------------------------------------------------------------------------
(* OrbitalScheme::redraw, the compositor pass *)

\* the windows drawn front to back
RECURSIVE drawFromFront(_, _, _)
drawFromFront(s, rect, k) ==
    IF k < 1
    THEN <<>>
    ELSE LET id == s.order[k]
             rest == drawFromFront(s, rect, k - 1)
         IN  IF id \in DOMAIN s.windows
             THEN LET window == s.windows[id]
                  IN  IF /\ rect.x < window.x + window.w
                         /\ rect.x + rect.w >= window.x
                         /\ rect.y < window.y + window.h
                         /\ rect.y + rect.h >= window.y - TitleH
                      THEN rest \o <<[id |-> id, active |-> (k - 1 = 0)]>>
                      ELSE rest
             ELSE rest

\* the windows drawn for one rectangle, back to front, each with the flag
\* that it is the front-most: the loop over self.order.iter().rev()
RECURSIVE drawFrom(_, _, _)
drawFrom(s, rect, k) ==
    IF k < 1
    THEN <<>>
    ELSE LET id == s.order[k]
             rest == drawFrom(s, rect, k - 1)
         IN  IF id \in DOMAIN s.windows
             THEN LET window == s.windows[id]
                  IN  IF /\ rect.x < AddI32(window.x, window.w)
                         /\ AddI32(rect.x, rect.w) >= window.x
                         /\ rect.y < AddI32(window.y, window.h)
                         /\ AddI32(rect.y, rect.h) >= window.y - TitleH
                      THEN <<[id |-> id, active |-> (k - 1 = 0)]>> \o rest
                      ELSE rest
             ELSE rest

\* one thing painted on the image of the screen
Layer(layer, id, active) == [layer |-> layer, id |-> id, active |-> active]

\* what one rectangle of the pass produces: the windows drawn, whether the
\* cursor is blended on top, all that is painted on the image in the order
\* it is painted, and the rows and columns sent to the display
composite(s, rect) ==
    LET x1 == max(0, min(s.width, rect.x))
        x2 == max(x1, min(s.width, AddI32(rect.x, rect.w)))
        y1 == max(0, min(s.height, rect.y))
        y2 == max(y1, min(s.height, AddI32(rect.y, rect.h)))
        drawn  == drawFrom(s, rect, Len(s.order))
        cursor == /\ rect.x < AddI32(s.cursor_x, CursorW)
                  /\ AddI32(rect.x, rect.w) >= s.cursor_x
                  /\ rect.y < AddI32(s.cursor_y, CursorH)
                  /\ AddI32(rect.y, rect.h) >= s.cursor_y
    IN  [ rect   |-> rect,
          drawn  |-> drawn,
          cursor |-> cursor,
          layers |-> <<Layer("background", 0, FALSE)>>
                     \o [i \in 1..Len(drawn) |->
                            Layer("window", drawn[i].id, drawn[i].active)]
                     \o (IF cursor THEN <<Layer("cursor", 0, FALSE)>> ELSE <<>>),
          x1 |-> x1, x2 |-> x2, y1 |-> y1, y2 |-> y2 ]

\* the rows sent to the display for a composited rectangle: for each row
\* the offsets of its first pixel and of the pixel after its last, and the
\* byte offset the display is told to seek to
spans(s, c) ==
    [j \in 1..(c.y2 - c.y1) |->
        LET row  == c.y1 + j - 1
            off1 == row * s.width + c.x1
            off2 == row * s.width + c.x2
        IN  [row |-> row, off1 |-> off1, off2 |-> off2, seek |-> off1 * 4]]

\* a build with overflow checks panics in the pass: a sum of line 189, 201
\* or 203 does not fit an i32
panics(s) ==
    \/ \E i \in 1..Len(s.redraws) :
          \/ Overflows(s.redraws[i].x, s.redraws[i].w)
          \/ Overflows(s.redraws[i].y, s.redraws[i].h)
    \/ /\ s.redraws # <<>>
       /\ \E id \in DOMAIN s.windows :
             Overflows(s.windows[id].x, s.windows[id].w)

\* a pass that takes the rectangles last first
redrawBackwards(s) ==
    [ s |-> [s EXCEPT !.redraws = <<>>],
      out |-> [i \in 1..Len(s.redraws) |->
                  composite(s, s.redraws[Len(s.redraws) + 1 - i])] ]

\* a pass that leaves the rectangles it drew scheduled
redrawUndrained(s) ==
    [ s |-> s,
      out |-> [i \in 1..Len(s.redraws) |-> composite(s, s.redraws[i])] ]

redraw(s) ==
    [ s |-> [s EXCEPT !.redraws = <<>>],
      out |-> [i \in 1..Len(s.redraws) |-> composite(s, s.redraws[i])] ]

----------------------------------------------------------------------------
(* Scheme::handle and the two loops of main *)

\* one request record of the transport: `id` numbers the request, `a` is
\* the call on arrival and the result on return, `b` the path of an open or
\* the handle of the other calls, `d` the size of the buffer
Packet(id, a, b, d) == [id |-> id, a |-> a, b |-> b, d |-> d]

\* Error::mux: a result as the one integer a packet carries back
mux(ret) == IF ret.ok THEN ret.val ELSE 0 - ret.val

\* Scheme::handle: the call named by packet.a is made and its result is
\* written over packet.a
handle(s, packet) ==
    LET r == CASE packet.a = SYS_OPEN  -> open(s, packet.b)
               [] packet.a = SYS_READ  -> read(s, packet.b, packet.d)
               [] packet.a = SYS_WRITE -> write(s, packet.b, packet.d)
               [] packet.a = SYS_FPATH ->
                      LET f == fpath(s, packet.b)
                      IN  [s   |-> f.s,
                           ret |-> IF f.ret.ok THEN Ok(Len(f.ret.val)) ELSE f.ret]
               [] packet.a = SYS_CLOSE -> close(s, packet.b)
               [] OTHER                -> [s |-> s, ret |-> Err(ENOSYS)]
    IN  [s |-> r.s, packet |-> [packet EXCEPT !.a = mux(r.ret)]]

\* the body of the loop answering a read that came back with 0 as well as
\* deferring it
dispatchBoth(s, packet) ==
    LET delay == packet.a = SYS_READ
        h == handle(s, packet)
    IN  IF delay /\ h.packet.a = 0
        THEN [s |-> [h.s EXCEPT !.todo = Append(@, h.packet)],
              responses |-> <<h.packet>>]
        ELSE [s |-> h.s, responses |-> <<h.packet>>]

\* the body of the loop deferring every read, whatever it came back with
dispatchEveryRead(s, packet) ==
    LET delay == packet.a = SYS_READ
        h == handle(s, packet)
    IN  IF delay
        THEN [s |-> [h.s EXCEPT !.todo = Append(@, h.packet)],
              responses |-> <<>>]
        ELSE [s |-> h.s, responses |-> <<h.packet>>]

\* the body of the loop deferring every packet that came back with 0
dispatchAnyZero(s, packet) ==
    LET h == handle(s, packet)
    IN  IF h.packet.a = 0
        THEN [s |-> [h.s EXCEPT !.todo = Append(@, h.packet)],
              responses |-> <<>>]
        ELSE [s |-> h.s, responses |-> <<h.packet>>]

\* the body of the loop over a batch of packets, the same in both loops: a
\* read that came back with 0 joins scheme.todo, every other packet joins
\* the responses
dispatch(s, packet) ==
    LET delay == packet.a = SYS_READ
        h == handle(s, packet)
    IN  IF delay /\ h.packet.a = 0
        THEN [s |-> [h.s EXCEPT !.todo = Append(@, h.packet)],
              responses |-> <<>>]
        ELSE [s |-> h.s, responses |-> <<h.packet>>]

Loops == {"event", "server"}

\* a lock that is handed out while it is held
lockAny(d) == d.lock \in Loops \cup {"none"}

\* Mutex::lock returns once no loop holds the mutex
lockFree(d) == d.lock = "none"

\* the loops as main starts them: the mutex free, each loop about to take
\* it for its first compositor pass, nothing received and nothing sent
driverNew ==
    [ lock      |-> "none",
      pc        |-> [l \in Loops |-> "lock_redraw"],
      events    |-> <<>>,
      packets   |-> [l \in Loops |-> <<>>],
      responses |-> [l \in Loops |-> <<>>],
      requests  |-> <<>>,
      sent      |-> <<>> ]

----------------------------------------------------------------------------
(* The inputs offered to the server *)

\* "/-1/-1/20/2/a": an auto-placed window
PathAuto ==
    <<Txt(""), Num(-1, "-1"), Num(-1, "-1"), Num(20, "20"), Num(2, "2"), Txt("a")>>
\* "/30/2/20/22/b/c": a window at a given place, its title holding a slash
PathAt ==
    <<Txt(""), Num(30, "30"), Num(2, "2"), Num(20, "20"), Num(22, "22"),
      Txt("b"), Txt("c")>>
\* "/20/20/20/2": a window at a given place, no title
PathTop ==
    <<Txt(""), Num(20, "20"), Num(20, "20"), Num(20, "20"), Num(2, "2")>>
\* "/x": no numeric field at all
PathBad == <<Txt(""), Txt("x")>>

\* the paths opened by the clients of Spec and of SpecInput
Paths == {PathAuto, PathAt, PathBad}
InputPaths == {PathTop, PathAt}

\* every id a handle can have, open or not
Ids == 1..(Pow2(IdBits - 1) - 1)

ReadCaps == {1}
WriteLens == {4}

MousePoints == {<<25, 10>>, <<35, 12>>}
MouseEvents == {Event(EVENT_MOUSE, p[1], p[2], c) : p \in MousePoints, c \in {0, 1}}
KeyEvents == {Event(EVENT_KEY, 97, 30, 1), Event(EVENT_KEY, 0, K_F1, 1)}

\* the bounds of the model hold of a scheme
Bounded(s) ==
    /\ Len(s.order) <= MaxWindows
    /\ Len(s.redraws) <= MaxRedraws
    /\ \A id \in DOMAIN s.windows :
          Len(s.windows[id].events) <= MaxQueue

Call(op, arg, ret) == [op |-> op, arg |-> arg, ret |-> ret]

----------------------------------------------------------------------------
(* The specification *)

Init ==
    /\ scheme = new(ScreenW, ScreenH)
    /\ last = Call("new", <<>>, <<>>)
    /\ driver = driverNew

Open(path) ==
    LET r == open(scheme, path)
    IN  /\ Bounded(r.s)
        /\ scheme' = r.s
        /\ last' = Call("open", path, r.ret)
        /\ UNCHANGED driver

Read(id, cap) ==
    LET r == read(scheme, id, cap)
    IN  /\ scheme' = r.s
        /\ last' = Call("read", id, r.ret)
        /\ UNCHANGED driver

Write(id, len) ==
    LET r == write(scheme, id, len)
    IN  /\ Bounded(r.s)
        /\ scheme' = r.s
        /\ last' = Call("write", id, r.ret)
        /\ UNCHANGED driver

Fpath(id) ==
    LET r == fpath(scheme, id)
    IN  /\ scheme' = r.s
        /\ last' = Call("fpath", id, r.ret)
        /\ UNCHANGED driver

Close(id) ==
    LET r == close(scheme, id)
    IN  /\ Bounded(r.s)
        /\ scheme' = r.s
        /\ last' = Call("close", id, r.ret)
        /\ UNCHANGED driver

Input(ev) ==
    LET r == event(scheme, ev)
    IN  /\ Bounded(r.s)
        /\ scheme' = r.s
        /\ last' = Call("event", ev, [spawn |-> r.spawn, focus |-> r.focus])
        /\ UNCHANGED driver

Redraw ==
    LET r == redraw(scheme)
    IN  /\ scheme' = r.s
        /\ last' = Call("redraw", <<>>, r.out)
        /\ UNCHANGED driver

Next ==
    \/ \E path \in Paths : Open(path)
    \/ \E id \in Ids, cap \in ReadCaps : Read(id, cap)
    \/ \E id \in Ids, len \in WriteLens : Write(id, len)
    \/ \E id \in Ids : Fpath(id)
    \/ \E id \in Ids : Close(id)
    \/ Redraw

\* the server under the requests of its clients: the registry, the ids, the
\* cascade and the redraw list they leave
Spec == Init /\ [][Next]_vars

\* the server once two clients have opened their windows
InitInput ==
    \E first \in InputPaths, second \in InputPaths :
        LET r == open(open(new(ScreenW, ScreenH), first).s, second)
        IN  /\ scheme = r.s
            /\ last = Call("open", second, r.ret)
            /\ driver = driverNew

NextInput ==
    \/ \E id \in Ids, cap \in ReadCaps : Read(id, cap)
    \/ \E id \in Ids, len \in WriteLens : Write(id, len)
    \/ \E id \in Ids : Close(id)
    \/ \E ev \in KeyEvents \cup MouseEvents : Input(ev)
    \/ Redraw

\* the server under mouse and keyboard input, over windows opened at given
\* places: the input router
SpecInput == InitInput /\ [][NextInput]_vars

\* the calls the clients of SpecLoops make: one window is opened, read,
\* written, described and closed; its handle, if the open came first, is 1
LoopCalls ==
    { [a |-> SYS_OPEN, b |-> PathTop, d |-> 0],
      [a |-> SYS_READ, b |-> 1, d |-> 1],
      [a |-> SYS_WRITE, b |-> 1, d |-> 4],
      [a |-> SYS_FPATH, b |-> 1, d |-> 8],
      [a |-> SYS_CLOSE, b |-> 1, d |-> 0] }

\* a key press and a move of the mouse with no button held
LoopEvents == {Event(EVENT_KEY, 97, 30, 1), Event(EVENT_MOUSE, 25, 10, 0)}

\* the batches of at most MaxBatch records over a set
Batches(S) == UNION {[1..n -> S] : n \in 1..MaxBatch}

\* the key events of a batch
Keys(batch) == {i \in 1..Len(batch) : batch[i].code = EVENT_KEY}

\* a loop takes the mutex, for its compositor pass or for its batch
LockStep(l) ==
    /\ driver.pc[l] \in {"lock_redraw", "lock_batch"}
    /\ lockFree(driver)
    /\ driver' = [driver EXCEPT
                    !.lock = l,
                    !.pc[l] = IF driver.pc[l] = "lock_redraw" THEN "redraw"
                              ELSE IF l = "event" THEN "events"
                              ELSE "packets"]
    /\ last' = Call("lock", <<>>, <<>>)
    /\ UNCHANGED scheme

\* the compositor pass at the head of a loop; the mutex is released at the
\* end of the block
RedrawStep(l) ==
    /\ driver.pc[l] = "redraw"
    /\ LET r == redraw(scheme)
       IN  /\ scheme' = r.s
           /\ last' = Call("redraw", <<>>, r.out)
    /\ driver' = [driver EXCEPT !.lock = "none", !.pc[l] = "receive"]

\* display.receive_type returns a batch of events to the input loop
ReceiveEvents(batch) ==
    /\ driver.pc["event"] = "receive"
    /\ \A id \in DOMAIN scheme.windows :
          Len(scheme.windows[id].events) + Cardinality(Keys(batch)) <= MaxQueue
    /\ driver' = [driver EXCEPT !.events = batch, !.pc["event"] = "lock_batch"]
    /\ last' = Call("receive", batch, <<>>)
    /\ UNCHANGED scheme

\* socket.receive_type returns a batch of requests to the request loop
ReceivePackets(batch) ==
    /\ driver.pc["server"] = "receive"
    /\ Len(driver.requests) + Len(batch) <= MaxRequests
    /\ LET packets == [i \in 1..Len(batch) |->
                         Packet(Len(driver.requests) + i,
                                batch[i].a, batch[i].b, batch[i].d)]
       IN  driver' = [driver EXCEPT
                        !.packets["server"] = packets,
                        !.requests = @ \o packets,
                        !.pc["server"] = "lock_batch"]
    /\ last' = Call("receive", batch, <<>>)
    /\ UNCHANGED scheme

\* the input loop hands the next event of its batch to scheme.event
EventStep ==
    /\ driver.pc["event"] = "events"
    /\ driver.events # <<>>
    /\ LET r == event(scheme, Head(driver.events))
       IN  /\ scheme' = r.s
           /\ last' = Call("event", <<Head(driver.events)>>,
                          <<[spawn |-> r.spawn, focus |-> r.focus]>>)
    /\ driver' = [driver EXCEPT !.events = Tail(@)]

\* the input loop, its events handled, leaving scheme.todo where it is
TodoStepSkip ==
    /\ driver.pc["event"] = "events"
    /\ driver.events = <<>>
    /\ driver' = [driver EXCEPT !.packets["event"] = <<>>,
                                !.pc["event"] = "packets"]
    /\ last' = Call("todo", <<>>, <<>>)
    /\ UNCHANGED scheme

\* the input loop, its events handled, swaps scheme.todo for an empty list
TodoStep ==
    /\ driver.pc["event"] = "events"
    /\ driver.events = <<>>
    /\ scheme' = [scheme EXCEPT !.todo = <<>>]
    /\ driver' = [driver EXCEPT !.packets["event"] = scheme.todo,
                                !.pc["event"] = "packets"]
    /\ last' = Call("todo", scheme.todo, <<>>)

\* a loop handles the next packet of its batch
PacketStep(l) ==
    /\ driver.pc[l] = "packets"
    /\ driver.packets[l] # <<>>
    /\ LET r == dispatch(scheme, Head(driver.packets[l]))
       IN  /\ scheme' = r.s
           /\ driver' = [driver EXCEPT !.packets[l] = Tail(@),
                                       !.responses[l] = @ \o r.responses]
           /\ last' = Call("handle", <<Head(driver.packets[l])>>, r.responses)

\* a loop, its batch handled, releases the mutex
UnlockStep(l) ==
    /\ driver.pc[l] = "packets"
    /\ driver.packets[l] = <<>>
    /\ driver' = [driver EXCEPT !.lock = "none", !.pc[l] = "send"]
    /\ last' = Call("unlock", <<>>, <<>>)
    /\ UNCHANGED scheme

\* a loop sends the responses it has, if any, and starts over
SendStep(l) ==
    /\ driver.pc[l] = "send"
    /\ driver' = [driver EXCEPT !.sent = @ \o driver.responses[l],
                                !.responses[l] = <<>>,
                                !.pc[l] = "lock_redraw"]
    /\ last' = IF driver.responses[l] # <<>>
               THEN Call("send", <<>>, driver.responses[l])
               ELSE Call("nosend", <<>>, <<>>)
    /\ UNCHANGED scheme

\* the steps a loop takes by itself
LoopSteps(l) ==
    \/ LockStep(l)
    \/ RedrawStep(l)
    \/ l = "event" /\ EventStep
    \/ l = "event" /\ TodoStep
    \/ PacketStep(l)
    \/ UnlockStep(l)
    \/ SendStep(l)

NextLoops ==
    \/ \E l \in Loops : LoopSteps(l)
    \/ \E batch \in Batches(LoopEvents) : ReceiveEvents(batch)
    \/ \E batch \in Batches(LoopCalls) : ReceivePackets(batch)

\* the two loops of main over the one scheme
SpecLoops == Init /\ [][NextLoops]_vars

\* loop l has a step to take by itself: ENABLED <<LoopSteps(l)>>_vars,
\* written out
LoopEnabled(l) ==
    \/ driver.pc[l] \in {"lock_redraw", "lock_batch"} /\ lockFree(driver)
    \/ driver.pc[l] \in {"redraw", "events", "packets", "send"}

\* SF_vars(LoopSteps(l)): loop l does not stop for ever while it has, again
\* and again, a step to take by itself
LoopFair(l) == <>[]~LoopEnabled(l) \/ []<><<LoopSteps(l)>>_vars

\* the loops under a scheduler that runs each thread, and a mutex that is
\* handed to a loop that keeps asking for it.  That a transport delivers a
\* batch is left to its peer.
SpecLoopsFair ==
    /\ SpecLoops
    /\ SF_vars(LockStep("event")) /\ SF_vars(LockStep("server"))
    /\ LoopFair("event") /\ LoopFair("server")

\* "/<x>/<y>/<w>/<h>": a window at a given place, of a given size
ClipPath(x, y, w, h) ==
    <<Txt(""), Num(x, "x"), Num(y, "y"), Num(w, "w"), Num(h, "h")>>

\* the windows the client of SpecClip opens: left of, on and right of the
\* screen, above, on and below it, narrow, wide and as wide as an i32 lets
\* a window be (such a window has no rows: its image has no pixels)
ClipPaths ==
    {ClipPath(x, y, w, h) :
        x \in {-30, 10, 70}, y \in {-10, 30, 90}, w \in {0, 20, 100}, h \in {0, 30}}
    \cup {ClipPath(x, y, I32Max, 0) : x \in {-30, 10, 70}, y \in {-10, 30, 90}}

\* the thread that made the pass has panicked, the mutex is poisoned
Panicked == last.op = "panic"

\* the client opens its window once the screen is drawn
ClipOpen(path) ==
    /\ ~Panicked
    /\ Len(scheme.order) < MaxClipWindows
    /\ scheme.redraws = <<>>
    /\ LET r == open(scheme, path)
       IN  /\ scheme' = r.s
           /\ last' = Call("open", path, r.ret)
    /\ UNCHANGED driver

\* a compositor pass, its sums wrapping where they do not fit
ClipRedraw ==
    /\ ~Panicked
    /\ LET r == redraw(scheme)
       IN  /\ scheme' = r.s
           /\ last' = Call("redraw", <<>>, r.out)
    /\ UNCHANGED driver

\* a compositor pass of a build with overflow checks: it panics once the
\* list is swapped out (line 173), at the first sum that does not fit
ClipPanic ==
    /\ ~Panicked
    /\ panics(scheme)
    /\ scheme' = [scheme EXCEPT !.redraws = <<>>]
    /\ last' = Call("panic", <<>>, <<>>)
    /\ UNCHANGED driver

NextClip ==
    \/ \E path \in ClipPaths : ClipOpen(path)
    \/ ClipRedraw
    \/ ClipPanic

\* the compositor clipping the rectangle of one window, at any place and of
\* any width, to the screen
SpecClip == Init /\ [][NextClip]_vars

\* a client opens a window; the clients of SpecDrag open MaxDragOpens
\* windows in all, so that ids 1..MaxDragOpens are handed out, each once
DragOpen(path) ==
    /\ scheme.next_id <= MaxDragOpens
    /\ Open(path)

NextDrag ==
    \/ \E path \in InputPaths : DragOpen(path)
    \/ \E id \in Ids : Close(id)
    \/ \E ev \in MouseEvents : Input(ev)
    \/ Redraw

\* the server under the mouse while its clients open and close windows at
\* given places: a drag with the request loop at work between its events
SpecDrag == Init /\ [][NextDrag]_vars

----------------------------------------------------------------------------
(* The claims *)

NoDuplicates(seq) == \A i, j \in 1..Len(seq) : seq[i] = seq[j] => i = j

\* C1: after any sequence of requests and input events the z-order and the
\* window mapping hold exactly the same ids, and the z-order holds no id
\* twice.
C1_RegistryConsistent ==
    /\ Range(scheme.order) = DOMAIN scheme.windows
    /\ NoDuplicates(scheme.order)

\* C2: every id an open returns is positive and is the id of no window that
\* is open when the open is made, also once the id counter has wrapped.
C2_OpenIdFresh ==
    [][ last'.op = "open" =>
            /\ last'.ret.ok
            /\ last'.ret.val > 0
            /\ last'.ret.val \notin DOMAIN scheme.windows ]_vars


(* The rectangles the claims about schedule are tried with in a state: the  *)
(* entries of the list, the rectangle of every open window and of every     *)
(* window a client can open, the cursor rectangle at every place the mouse  *)
(* goes, and a few rectangles of no area.                                   *)
Probes(s) ==
    Range(s.redraws)
    \cup {WindowRect(s.windows[id]) : id \in DOMAIN s.windows}
    \cup {WindowRect(WindowNew(x, 20, 20, h, <<>>)) : x \in {20, 30, 40}, h \in {2, 22}}
    \cup {Rect(p[1], p[2], CursorW, CursorH) : p \in MousePoints \cup {<<0, 0>>}}
    \cup {Rect(x, 2, w, h) : x \in {25, 30}, w \in {0, 10}, h \in {0, 18}}

scheduleRect(redraws, B) == schedule(redraws, B.x, B.y, B.w, B.h)

\* merging the request into the entry is cheaper than keeping both
Merges(entry, request) ==
    area(container(entry, request)) < area(entry) + area(request)

\* C3 as claimed: if some rectangle of the damage list fully contains B,
\* schedule(B) leaves the damage list unchanged.
C3_ContainedIsDiscarded ==
    \A B \in Probes(scheme) :
        (\E i \in 1..Len(scheme.redraws) : contains(scheme.redraws[i], B))
            => scheduleRect(scheme.redraws, B) = scheme.redraws

\* entry i of the list contains B and no entry before it merges with B
ContainedFirst(redraws, B, i) ==
    /\ contains(redraws[i], B)
    /\ \A j \in 1..(i - 1) : ~Merges(redraws[j], B)

\* C3, amended: if some rectangle A of the damage list fully contains B and
\* no entry before A in list order has a bounding union with B of less area
\* than the two together, schedule(B) leaves the damage list unchanged.
C3_ContainedFirstIsDiscarded ==
    \A B \in Probes(scheme) :
        (\E i \in 1..Len(scheme.redraws) : ContainedFirst(scheme.redraws, B, i))
            => scheduleRect(scheme.redraws, B) = scheme.redraws

\* C3, witness: a write has scheduled the rectangle of its window, which the
\* second entry of the list contains and the first neither contains nor
\* merges with
C3_Witness ==
    /\ last.op = "write"
    /\ last.ret.ok
    /\ Len(scheme.redraws) >= 2
    /\ LET B == WindowRect(scheme.windows[last.arg])
       IN  /\ area(B) > 0
           /\ ~contains(scheme.redraws[1], B)
           /\ ContainedFirst(scheme.redraws, B, 2)

\* the entries of the list that merge with the request
Merging(redraws, B) == {i \in 1..Len(redraws) : Merges(redraws[i], B)}

First(indices) == CHOOSE i \in indices : \A j \in indices : i <= j

\* C4: when the bounding union of B and some entry of the list has less area
\* than the two together, schedule(B) replaces the first such entry in list
\* order by its bounding union with B, appends nothing and leaves every other
\* entry as it was.
C4_FirstMergingIsReplaced ==
    \A B \in Probes(scheme) :
        LET L == scheme.redraws
            q == Merging(L, B)
        IN  q /= {} =>
                /\ scheduleRect(L, B) = [L EXCEPT ![First(q)] = container(L[First(q)], B)]
                /\ Len(scheduleRect(L, B)) = Len(L)

\* C4, witness: two entries of the list merge with a rectangle that the
\* first of them does not contain
C4_Witness ==
    \E B \in Probes(scheme) :
        /\ Cardinality(Merging(scheme.redraws, B)) >= 2
        /\ ~contains(scheme.redraws[First(Merging(scheme.redraws, B))], B)

\* the point lies in the rectangle
Covers(r, px, py) ==
    /\ r.x <= px /\ px < r.x + r.w
    /\ r.y <= py /\ py < r.y + r.h

\* the point lies in some entry of the list
Covered(redraws, px, py) ==
    \E i \in 1..Len(redraws) : Covers(redraws[i], px, py)

\* every point of the rectangles `rects` lies in some entry of `redraws`.
\* Whether a point is covered changes only at an edge of a rectangle, so the
\* points at the edges of all the rectangles involved decide it for all.
CoversAll(redraws, rects) ==
    LET all == rects \cup Range(redraws)
        xs  == {r.x : r \in all} \cup {r.x + r.w : r \in all}
        ys  == {r.y : r \in all} \cup {r.y + r.h : r \in all}
    IN  \A r \in rects : \A px \in xs, py \in ys :
            Covers(r, px, py) => Covered(redraws, px, py)

\* the rectangles the call `call` made in scheme s, leaving scheme n, has
\* passed to schedule
Scheduled(s, n, call) ==
    IF call.op = "open"
    THEN {WindowRect(n.windows[call.ret.val])}
    ELSE IF call.op \in {"write", "close"}
    THEN IF call.ret.ok THEN {WindowRect(s.windows[call.arg])} ELSE {}
    ELSE IF call.op = "event" /\ call.arg.code = EVENT_MOUSE
    THEN (IF n.cursor_x /= s.cursor_x \/ n.cursor_y /= s.cursor_y
          THEN {Rect(s.cursor_x, s.cursor_y, CursorW, CursorH),
                Rect(n.cursor_x, n.cursor_y, CursorW, CursorH)}
          ELSE {})
         \cup
         UNION {{WindowRect(s.windows[id]), WindowRect(n.windows[id])} :
                    id \in {i \in DOMAIN s.windows :
                                \/ n.windows[i].x /= s.windows[i].x
                                \/ n.windows[i].y /= s.windows[i].y}}
    ELSE {}

\* C5: schedule loses no coverage: after every call but a compositor pass,
\* every point of an entry the list had before the call, and every point of
\* a rectangle the call has scheduled, lies in an entry of the list; so
\* between two compositor passes the list covers every rectangle scheduled
\* since the last one.
C5_ScheduleKeepsCoverage ==
    [][ last'.op /= "redraw" =>
            CoversAll(scheme'.redraws,
                      Range(scheme.redraws) \cup Scheduled(scheme, scheme', last')) ]_vars

\* C5, witness: a drag has moved the front window and the rectangles it had
\* before and has after the move were merged into one entry of the list
C5_Witness ==
    /\ last.op = "event"
    /\ scheme.dragging
    /\ Len(scheme.order) > 0
    /\ \E i \in 1..Len(scheme.redraws) :
          LET moved == WindowRect(scheme.windows[Head(scheme.order)])
          IN  /\ contains(scheme.redraws[i], moved)
              /\ area(scheme.redraws[i]) > area(moved)
              /\ scheme.redraws[i] /= Rect(0, 0, ScreenW, ScreenH)


\* the open asks for auto-placement: "/<x>/<y>/..." with x < 0 and y < 0
AutoPlaced(path) ==
    /\ Len(path) >= 3
    /\ path[2].i32 /\ path[2].n < 0
    /\ path[3].i32 /\ path[3].n < 0

\* C6 as claimed: on a fresh server the first auto-placed open puts its
\* window at (20,20) and the second at (40,20).
C6_SecondAtFortyTwenty ==
    ( /\ last.op = "open"
      /\ AutoPlaced(last.arg)
      /\ scheme.order = <<2, 1>>
      /\ scheme.windows[1].title = <<"a">>
      /\ scheme.windows[1].x = 20 /\ scheme.windows[1].y = 20 )
    => (scheme.windows[2].x = 40 /\ scheme.windows[2].y = 20)

\* a cascade counter after one step on a screen `limit` wide or high
Stepped(counter, limit) ==
    IF counter + 20 + 20 >= limit THEN 20 ELSE counter + 20

\* C6, amended: the counters start at (20,20); an auto-placed open puts its
\* window at (x-counter, y-counter) and then steps both counters by 20, so
\* that on a fresh server the first lands at (20,20) and the second at
\* (40,40); the x-counter goes back to 20 when 20 past its stepped value
\* reaches the screen width, the y-counter when it reaches the screen
\* height, each whatever the other does; no other call moves a counter.
C6_CascadeSteps ==
    [][ IF last'.op = "open" /\ AutoPlaced(last'.arg)
        THEN LET window == scheme'.windows[last'.ret.val]
             IN  /\ window.x = scheme.next_x
                 /\ window.y = scheme.next_y
                 /\ scheme'.next_x = Stepped(scheme.next_x, ScreenW)
                 /\ scheme'.next_y = Stepped(scheme.next_y, ScreenH)
                 /\ (scheme.next_x = 20 /\ scheme.next_y = 20)
                        => (scheme'.next_x = 40 /\ scheme'.next_y = 40)
        ELSE /\ scheme'.next_x = scheme.next_x
             /\ scheme'.next_y = scheme.next_y ]_vars

\* C6, witness: the second auto-placed open has landed at (40,40); the
\* x-counter is back at 20 and the y-counter has gone on to 60
C6_Witness ==
    /\ last.op = "open"
    /\ AutoPlaced(last.arg)
    /\ scheme.windows[last.ret.val].x = 40
    /\ scheme.windows[last.ret.val].y = 40
    /\ scheme.next_x = 20
    /\ scheme.next_y = 60

\* C7: right after an open the id it returned is at index 0 of the z-order,
\* the id that was at index 0 is at index 1 and the windows open before
\* keep their order.
C7_OpenPushesFront ==
    [][ last'.op = "open" =>
            /\ last'.ret.ok
            /\ scheme'.order = <<last'.ret.val>> \o scheme.order ]_vars

\* C7, witness: an open was made while another window was open
C7_Witness ==
    /\ last.op = "open"
    /\ Len(scheme.order) >= 2
    /\ scheme.order[1] = last.ret.val

\* the z-order with its entry k moved to the front
Raised(order, k) ==
    [i \in 1..Len(order) |->
        IF i = 1 THEN order[k] ELSE IF i <= k THEN order[i - 1] ELSE order[i]]

\* the point lies in the title bar of entry k of the z-order and in neither
\* the content nor the title bar of an entry in front of it
TitleBehind(s, k, px, py) ==
    /\ WindowTitleContains(s.windows[s.order[k]], px, py)
    /\ \A j \in 1..(k - 1) :
          /\ ~WindowContains(s.windows[s.order[j]], px, py)
          /\ ~WindowTitleContains(s.windows[s.order[j]], px, py)

\* C8: when not dragging, a mouse event with a button pressed in the title
\* bar of a window B that is behind another, at a place in neither the
\* content nor the title bar of a window in front of B, leaves B at index 0
\* of the z-order and the other windows in the order they had.
C8_TitlePressRaises ==
    [][ ( /\ last'.op = "event"
          /\ last'.arg.code = EVENT_MOUSE
          /\ last'.arg.c > 0
          /\ ~scheme.dragging )
        => \A k \in 2..Len(scheme.order) :
               TitleBehind(scheme, k, last'.arg.a, last'.arg.b)
                   => scheme'.order = Raised(scheme.order, k) ]_vars

\* C8, witness: a press in the title bar of a window has raised it from
\* behind another
C8_Witness ==
    /\ last.op = "event"
    /\ last.arg.code = EVENT_MOUSE
    /\ last.arg.c > 0
    /\ last.ret.focus > 0
    /\ Len(scheme.order) >= 2
    /\ WindowTitleContains(scheme.windows[scheme.order[1]], last.arg.a, last.arg.b)
    /\ ~WindowContains(scheme.windows[scheme.order[2]], last.arg.a, last.arg.b)
    /\ ~WindowTitleContains(scheme.windows[scheme.order[2]], last.arg.a, last.arg.b)

\* C9: every mouse event with no button held, in a drag or not, and every
\* keyboard event leaves the z-order as it was.
C9_OnlyPressReorders ==
    [][ ( /\ last'.op = "event"
          /\ \/ last'.arg.code = EVENT_KEY
             \/ last'.arg.code = EVENT_MOUSE /\ last'.arg.c <= 0 )
        => scheme'.order = scheme.order ]_vars

\* C9, witness: the mouse has moved with no button held into the title bar
\* of a window that is behind another and is not under it at that place
C9_Witness ==
    /\ last.op = "event"
    /\ last.arg.code = EVENT_MOUSE
    /\ last.arg.c = 0
    /\ Len(scheme.order) >= 2
    /\ TitleBehind(scheme, 2, last.arg.a, last.arg.b)

\* C10: close on an id that is not in the registry returns EBADF and leaves
\* the damage list, the z-order and the window mapping as they were.
C10_CloseUnknown ==
    [][ (last'.op = "close" /\ last'.arg \notin DOMAIN scheme.windows)
        => /\ last'.ret = Err(EBADF)
           /\ scheme'.redraws = scheme.redraws
           /\ scheme'.order = scheme.order
           /\ scheme'.windows = scheme.windows ]_vars

\* C10, witness: a close has failed while windows were open and rectangles
\* scheduled
C10_Witness ==
    /\ last.op = "close"
    /\ ~last.ret.ok
    /\ Len(scheme.order) > 0
    /\ Len(scheme.redraws) > 0

\* the rectangle of a window with its title bar
WithTitle(window) ==
    [x |-> window.x, y |-> window.y - TitleH,
     w |-> window.w, h |-> window.h + TitleH]

\* the call made in this step is a mouse event with the given button state
MouseCall(call) == call.op = "event" /\ call.arg.code = EVENT_MOUSE

\* C13: a mouse event that starts a drag is a press on the title bar of the
\* window that is in front afterwards, and anchors the drag at the cursor
\* p0; a mouse event with the button held at p1 # p0 that follows a mouse
\* event of the drag moves that window by p1 - p0 and no other window, and
\* the damage list then covers the window's rectangle with its title bar as
\* it was before and as it is after the move
C13_DragMovesByDelta ==
    [][ MouseCall(last') =>
          LET ev == last'.arg
          IN  /\ (~scheme.dragging /\ scheme'.dragging)
                 => /\ ev.c > 0
                    /\ scheme'.order # <<>>
                    /\ WindowTitleContains(scheme'.windows[Head(scheme'.order)],
                                           ev.a, ev.b)
                    /\ scheme'.windows[Head(scheme'.order)]
                         = scheme.windows[Head(scheme'.order)]
                    /\ scheme'.drag_x = ev.a /\ scheme'.drag_y = ev.b
              /\ ( /\ scheme.dragging
                   /\ MouseCall(last) /\ last.arg.c > 0
                   /\ ev.c > 0
                   /\ ev.a # scheme.drag_x \/ ev.b # scheme.drag_y )
                 => LET id == Head(scheme.order)
                        old == scheme.windows[id]
                        now == scheme'.windows[id]
                    IN  /\ now.x = old.x + (ev.a - scheme.drag_x)
                        /\ now.y = old.y + (ev.b - scheme.drag_y)
                        /\ now.w = old.w /\ now.h = old.h
                        /\ scheme'.order = scheme.order
                        /\ \A o \in DOMAIN scheme.windows \ {id} :
                              scheme'.windows[o] = scheme.windows[o]
                        /\ CoversAll(scheme'.redraws,
                                     {WithTitle(old), WithTitle(now)}) ]_vars

\* C13, witness: the window opened at (20,20) was pressed on its title bar
\* at (25,10) and dragged to (35,12): it is the front window, at (30,22)
C13_Witness ==
    /\ MouseCall(last)
    /\ last.arg.c > 0
    /\ scheme.dragging
    /\ scheme.drag_x = 35 /\ scheme.drag_y = 12
    /\ scheme.order # <<>>
    /\ scheme.windows[Head(scheme.order)].x = 30
    /\ scheme.windows[Head(scheme.order)].y = 22

\* C17: the damage list of a new server is the one rectangle of the whole
\* screen; a compositor pass leaves the list empty and has composited each
\* rectangle the list held, once, in the order of the list
C17_PassDrainsInOrder ==
    /\ scheme.redraws = <<[x |-> 0, y |-> 0, w |-> ScreenW, h |-> ScreenH]>>
    /\ [][ last'.op = "redraw" =>
              /\ scheme'.redraws = <<>>
              /\ Len(last'.ret) = Len(scheme.redraws)
              /\ \A i \in 1..Len(scheme.redraws) :
                    last'.ret[i].rect = scheme.redraws[i] ]_vars

\* C17, witness: a pass has composited two different rectangles
C17_Witness ==
    /\ last.op = "redraw"
    /\ Len(last.ret) = 2
    /\ last.ret[1].rect # last.ret[2].rect
    /\ scheme.redraws = <<>>

\* C18: a close that succeeds takes the handle out of the map and out of the
\* z-order and leaves the other windows and their order as they were; a
\* read, write, fpath or close on a handle that is not open fails with
\* EBADF, and a handle comes to be open only by an open that returns it
C18_ClosedStaysClosed ==
    [][ /\ (last'.op = "close" /\ last'.ret.ok)
           => LET id == last'.arg
              IN  /\ DOMAIN scheme'.windows = DOMAIN scheme.windows \ {id}
                  /\ \A o \in DOMAIN scheme'.windows :
                        scheme'.windows[o] = scheme.windows[o]
                  /\ scheme'.order = SelectSeq(scheme.order, LAMBDA e : e # id)
                  /\ id \notin Range(scheme'.order)
        /\ ( /\ last'.op \in {"read", "write", "fpath", "close"}
             /\ last'.arg \notin DOMAIN scheme.windows )
           => /\ last'.ret = [ok |-> FALSE, val |-> EBADF]
              /\ DOMAIN scheme'.windows = DOMAIN scheme.windows
        /\ \A id \in Ids :
              (id \notin DOMAIN scheme.windows /\ id \in DOMAIN scheme'.windows)
              => last'.op = "open" /\ last'.ret = [ok |-> TRUE, val |-> id] ]_vars

\* C18, witness: a window was closed while another, behind it, stays open
C18_Witness ==
    /\ last.op = "close"
    /\ last.ret.ok
    /\ scheme.order # <<>>
    /\ last.arg > Head(scheme.order)

\* C19: after an open, a write or a close that succeeds the damage list
\* covers the rectangle of the window with its title bar: of the new window
\* for an open, of the window as it was before the call for a write and for
\* a close
C19_DamageCoversWindow ==
    [][ (last'.op \in {"open", "write", "close"} /\ last'.ret.ok)
          => LET window == IF last'.op = "open"
                           THEN scheme'.windows[last'.ret.val]
                           ELSE scheme.windows[last'.arg]
             IN  CoversAll(scheme'.redraws, {WithTitle(window)}) ]_vars

\* C19, witness: a write was made when nothing was scheduled, and the list
\* is the rectangle of its window with the title bar
C19_Witness ==
    /\ last.op = "write"
    /\ last.ret.ok
    /\ scheme.redraws = <<WithTitle(scheme.windows[last.arg])>>
    /\ area(scheme.redraws[1]) > 0

----------------------------------------------------------------------------
(* Claims on the requests as the loops handle them *)

\* loop l is handling the packet at the head of its batch in this step
Handling(l) ==
    /\ driver.pc[l] = "packets"
    /\ driver.packets[l] # <<>>
    /\ driver'.packets[l] = Tail(driver.packets[l])

\* the packet as it is answered with an error
Failed(packet, errno) == [packet EXCEPT !.a = 0 - errno]

\* C11: a read, a write or an fpath on a handle that is not open changes
\* nothing of the scheme (no damage, no window, queue, z-order, drag state,
\* nothing deferred) and its packet joins the responses of the batch with
\* the error EBADF
C11_UnknownIdAnswered ==
    [][ \A l \in Loops :
          Handling(l) =>
            LET packet == Head(driver.packets[l])
            IN  ( /\ packet.a \in {SYS_READ, SYS_WRITE, SYS_FPATH}
                  /\ packet.b \notin DOMAIN scheme.windows )
                => /\ scheme' = scheme
                   /\ driver'.responses[l] =
                        Append(driver.responses[l], Failed(packet, EBADF)) ]_vars

\* C11, witness: a read on a handle that was open once and is closed was
\* answered EBADF
C11_Witness ==
    /\ last.op = "handle"
    /\ last.arg[1].a = SYS_READ
    /\ last.arg[1].b \notin DOMAIN scheme.windows
    /\ last.arg[1].b < scheme.next_id
    /\ last.ret = <<Failed(last.arg[1], EBADF)>>

\* the ids of the packets of a list
PacketIds(packets) == {packets[i].id : i \in 1..Len(packets)}

\* C12: a read on an open window with nothing queued is not answered in
\* its cycle but deferred, and a deferred read retried by the input loop
\* when its window has input queued is answered with a byte count above 0
C12_DeferredReadIsAnswered ==
    [][ \A l \in Loops :
          Handling(l) =>
            LET packet == Head(driver.packets[l])
            IN  /\ ( /\ packet.a = SYS_READ
                     /\ packet.b \in DOMAIN scheme.windows
                     /\ scheme.windows[packet.b].events = <<>> )
                   => /\ driver'.responses[l] = driver.responses[l]
                      /\ packet.id \in PacketIds(scheme'.todo)
                /\ ( /\ l = "event"
                     /\ packet.b \in DOMAIN scheme.windows
                     /\ scheme.windows[packet.b].events # <<>> )
                   => /\ Len(driver'.responses[l]) = Len(driver.responses[l]) + 1
                      /\ driver'.responses[l][Len(driver'.responses[l])].id = packet.id
                      /\ driver'.responses[l][Len(driver'.responses[l])].a > 0 ]_vars

\* request i has arrived / is in a batch of responses that was sent
Received(i) == i <= Len(driver.requests)
Answered(i) == i \in PacketIds(driver.sent)

\* C14: every request is answered in the end, unless it is a read whose
\* window stays open (a read deferred on a window that is closed later is
\* answered)
C14_EveryRequestAnswered ==
    \A i \in 1..MaxRequests :
        Received(i) ~>
            \/ Received(i) /\ Answered(i)
            \/ /\ Received(i)
               /\ driver.requests[i].a = SYS_READ
               /\ driver.requests[i].b \in DOMAIN scheme.windows

\* the sections of a loop that read or change the scheme
Critical == {"redraw", "events", "packets"}

\* C15: a loop is in a section that reads or changes the scheme only while
\* it holds the mutex, so the two loops are never in such sections together,
\* and the scheme changes only in a step of the loop that holds the mutex
C15_MutualExclusion ==
    /\ [](\A l \in Loops : driver.pc[l] \in Critical <=> driver.lock = l)
    /\ [][ scheme' # scheme =>
              \E l \in Loops :
                  /\ driver.lock = l
                  /\ driver.pc[l] \in Critical
                  /\ \A o \in Loops \ {l} :
                        /\ driver'.pc[o] = driver.pc[o]
                        /\ driver.pc[o] \notin Critical ]_vars

\* C15, witness: the input loop is retrying a deferred read under the mutex
\* while the request loop, a batch in hand, waits for the mutex
C15_Witness ==
    /\ driver.lock = "event"
    /\ driver.pc["event"] = "packets"
    /\ driver.packets["event"] # <<>>
    /\ driver.pc["server"] = "lock_batch"

\* requests i and j name the same handle
SameHandle(i, j) ==
    /\ driver.requests[i].a # SYS_OPEN
    /\ driver.requests[j].a # SYS_OPEN
    /\ driver.requests[i].b = driver.requests[j].b

\* request i is a read that was deferred and is not sent yet
DeferredRead(i) ==
    /\ driver.requests[i].a = SYS_READ
    /\ i \in PacketIds(scheme.todo) \cup PacketIds(driver.packets["event"])
            \cup PacketIds(driver.responses["event"])

\* loop l is sending its responses in this step
Sending(l) == driver.pc[l] = "send" /\ driver'.pc[l] # "send"

\* the request loop takes the requests of a handle in the order they came
InArrivalOrder ==
    Handling("server") =>
        \A i \in 1..(Head(driver.packets["server"]).id - 1) :
            i \notin PacketIds(driver.packets["server"])

C20_BlockedMeansDrained ==
    (\A l \in Loops : driver.pc[l] = "receive") => scheme.redraws = <<>>

\* C20, witness: both loops wait, after the request loop opened a window
\* and the input loop moved the cursor
C20_Witness ==
    /\ \A l \in Loops : driver.pc[l] = "receive"
    /\ scheme.order # <<>>
    /\ scheme.cursor_x # 0

----------------------------------------------------------------------------
(* Claims on the cycle of a loop *)

\* the calls on the scheme a loop makes under the mutex
SchemeCalls == {"event", "handle", "redraw"}

\* C21: a loop holds the mutex from the start of its batch until the
\* compositor pass that follows the batch is over: once a loop has handled
\* its batch and until its pass, the other loop handles no event, dispatches
\* no request and makes no pass
C21_BatchAndPassAreOneStep ==
    [][ (\E l \in Loops : driver.pc[l] = "send")
            => last'.op \notin SchemeCalls ]_vars

\* C22: a loop that starts on its batch of requests takes with it every
\* request that lies deferred in scheme.todo, whichever loop it is
C22_EitherLoopRetries ==
    [][ \A l \in Loops :
          (driver.pc[l] # "packets" /\ driver'.pc[l] = "packets")
            => PacketIds(scheme.todo) \subseteq PacketIds(driver'.packets[l]) ]_vars

\* the request is a read that finds its window open and nothing to return
ZeroRead(s, packet) ==
    /\ packet.a = SYS_READ
    /\ read(s, packet.b, packet.d).ret = Ok(0)

\* a loop has not yet started on the batch of its cycle
BeforeBatch(l) ==
    driver.pc[l] \in {"lock_redraw", "redraw", "receive", "lock_batch"}

\* C23: a request a loop executes is deferred exactly when it is a read
\* that returns zero bytes; every other request, a read that returns data
\* or an error among them, leaves the deferred list as it was and joins the
\* responses of the loop, which are empty when the cycle starts and are all
\* sent when it ends; a cycle sends once, and not at all when it has no
\* response
C23_OnlyZeroReadsDeferred ==
    /\ [](\A l \in Loops : BeforeBatch(l) => driver.responses[l] = <<>>)
    /\ [][ /\ \A l \in Loops :
                (last'.op = "handle" /\ driver.lock = l) =>
                  LET packet == last'.arg[1]
                  IN  IF ZeroRead(scheme, packet)
                      THEN /\ Len(scheme'.todo) = Len(scheme.todo) + 1
                           /\ scheme'.todo[Len(scheme'.todo)].id = packet.id
                           /\ SubSeq(scheme'.todo, 1, Len(scheme.todo)) = scheme.todo
                           /\ driver'.responses[l] = driver.responses[l]
                      ELSE /\ scheme'.todo = scheme.todo
                           /\ Len(driver'.responses[l]) = Len(driver.responses[l]) + 1
                           /\ driver'.responses[l][Len(driver'.responses[l])].id
                                = packet.id
                           /\ SubSeq(driver'.responses[l], 1, Len(driver.responses[l]))
                                = driver.responses[l]
           /\ \A l \in Loops :
                (driver.pc[l] = "send" /\ driver'.pc[l] # "send") =>
                  /\ driver'.sent = driver.sent \o driver.responses[l]
                  /\ driver'.responses[l] = <<>>
                  /\ BeforeBatch(l)'
                  /\ (last'.op = "send") = (driver.responses[l] # <<>>)
           /\ last'.op = "send" => last'.ret # <<>>
           /\ driver'.sent # driver.sent => last'.op = "send" ]_vars

\* C23, witness: a read that returned the event queued in its window has
\* joined the responses, and nothing lies deferred
C23_Witness ==
    /\ last.op = "handle"
    /\ last.arg[1].a = SYS_READ
    /\ last.ret # <<>>
    /\ last.ret[1].a > 0
    /\ scheme.todo = <<>>
    /\ \E l \in Loops : driver.responses[l] # <<>>

----------------------------------------------------------------------------
(* Claims on the input router *)

\* the call is a keyboard event, and the hotkey of the process list or not
KeyCall(call) == call.op = "event" /\ call.arg.code = EVENT_KEY
Hotkey(ev) == AsU8(ev.b) = K_F1 /\ ev.c > 0

\* C24: a press of F1 spawns the process list and does nothing else: the
\* windows and their queues, the z-order and all the rest of the scheme are
\* as they were
C24_HotkeyOnlySpawns ==
    [][ (KeyCall(last') /\ Hotkey(last'.arg))
            => /\ last'.ret.spawn
               /\ scheme' = scheme ]_vars

\* C25: a keyboard event that is not the hotkey joins, as it is, the queue
\* of the window at index 0 of the z-order and changes nothing else; with no
\* window open it changes nothing at all; nothing is spawned
C25_KeyGoesToFront ==
    [][ (KeyCall(last') /\ ~Hotkey(last'.arg))
            => /\ ~last'.ret.spawn
               /\ IF scheme.order = <<>>
                  THEN scheme' = scheme
                  ELSE scheme' = [scheme EXCEPT
                                    !.windows[Head(scheme.order)].events =
                                        Append(@, last'.arg)] ]_vars

\* C25, witness: a key has joined the queue of the front window, and the
\* window behind it has got nothing
C25_Witness ==
    /\ KeyCall(last)
    /\ ~Hotkey(last.arg)
    /\ Len(scheme.order) = 2
    /\ scheme.windows[scheme.order[1]].events = <<last.arg>>
    /\ scheme.windows[scheme.order[2]].events = <<>>

\* window k of the z-order holds the point in its content area or title bar
Holds(s, k, px, py) ==
    \/ WindowContains(s.windows[s.order[k]], px, py)
    \/ WindowTitleContains(s.windows[s.order[k]], px, py)

\* the entries of the z-order that hold the point
Holding(s, px, py) == {k \in 1..Len(s.order) : Holds(s, k, px, py)}

\* C26: a mouse event that comes when no drag is on is handled by the first
\* window in z-order, front to back, that holds the cursor in its content
\* area or its title bar, and by no other: every other window stays as it
\* was, only the first can become the focus or start a drag, and when the
\* cursor is in its content area it gets the event with the coordinates
\* taken relative to its origin; when no window holds the cursor no window
\* changes
C26_FirstHolderHandles ==
    [][ (MouseCall(last') /\ ~scheme.dragging) =>
          LET ev == last'.arg
              q  == Holding(scheme, ev.a, ev.b)
          IN  IF q = {}
              THEN /\ scheme'.windows = scheme.windows
                   /\ scheme'.order = scheme.order
                   /\ ~scheme'.dragging
              ELSE LET k  == First(q)
                       id == scheme.order[k]
                       window == scheme.windows[id]
                   IN  /\ \A o \in DOMAIN scheme.windows \ {id} :
                             scheme'.windows[o] = scheme.windows[o]
                       /\ scheme'.order \in {scheme.order, Raised(scheme.order, k)}
                       /\ last'.ret.focus \in {0, k - 1}
                       /\ scheme'.dragging
                            => /\ scheme'.order[1] = id
                               /\ WindowTitleContains(window, ev.a, ev.b)
                       /\ WindowContains(window, ev.a, ev.b)
                            => /\ scheme'.windows[id] =
                                    [window EXCEPT !.events = Append(@,
                                        [ev EXCEPT !.a = ev.a - window.x,
                                                   !.b = ev.b - window.y])]
                               /\ ~scheme'.dragging ]_vars

\* C26, witness: a press has reached the content area of the front window
\* at a place that is also in the title bar of the window behind it, which
\* got nothing and is not dragged
C26_Witness ==
    /\ MouseCall(last)
    /\ last.arg.c > 0
    /\ ~scheme.dragging
    /\ Len(scheme.order) = 2
    /\ WindowContains(scheme.windows[scheme.order[1]], last.arg.a, last.arg.b)
    /\ WindowTitleContains(scheme.windows[scheme.order[2]], last.arg.a, last.arg.b)
    /\ Len(scheme.windows[scheme.order[1]].events) = 1
    /\ scheme.windows[scheme.order[1]].events[1].code = EVENT_MOUSE
    /\ scheme.windows[scheme.order[2]].events = <<>>

\* the rectangle of the cursor image at a place
CursorRect(x, y) == Rect(x, y, CursorW, CursorH)

\* C27: after a mouse event the cursor is where the event says; when that
\* is a new place the damage list covers the rectangle of the cursor at the
\* old place and at the new one, and when it is the old place the damage
\* list is as it was
C27_CursorFollowsMouse ==
    [][ MouseCall(last') =>
          /\ scheme'.cursor_x = last'.arg.a
          /\ scheme'.cursor_y = last'.arg.b
          /\ IF last'.arg.a # scheme.cursor_x \/ last'.arg.b # scheme.cursor_y
             THEN CoversAll(scheme'.redraws,
                            {CursorRect(scheme.cursor_x, scheme.cursor_y),
                             CursorRect(last'.arg.a, last'.arg.b)})
             ELSE scheme'.redraws = scheme.redraws ]_vars

\* C27, witness: the cursor has gone from (25,10) to (35,12) and one entry
\* of the damage list, less than the screen, holds both its rectangles
C27_Witness ==
    /\ MouseCall(last)
    /\ scheme.cursor_x = 35 /\ scheme.cursor_y = 12
    /\ \E i \in 1..Len(scheme.redraws) :
          /\ contains(scheme.redraws[i], CursorRect(25, 10))
          /\ contains(scheme.redraws[i], CursorRect(35, 12))
          /\ area(scheme.redraws[i]) < ScreenW * ScreenH

\* C28: when no drag is on, a press in the title bar of the window that
\* handles it, on the close control, puts a quit notification in the queue
\* of that window and starts no drag: dragging stays false and the anchor
\* where it was; a press elsewhere in the title bar starts a drag anchored
\* at the cursor and leaves the queues of all windows as they were
C28_TitlePressQuitsOrDrags ==
    [][ (MouseCall(last') /\ ~scheme.dragging /\ last'.arg.c > 0) =>
          LET ev == last'.arg
              q  == Holding(scheme, ev.a, ev.b)
          IN  q # {} =>
                LET id == scheme.order[First(q)]
                    window == scheme.windows[id]
                IN  WindowTitleContains(window, ev.a, ev.b) =>
                      IF WindowExitContains(window, ev.a, ev.b)
                      THEN /\ scheme'.windows =
                                [scheme.windows EXCEPT
                                    ![id].events = Append(@, QuitEvent)]
                           /\ ~scheme'.dragging
                           /\ scheme'.drag_x = scheme.drag_x
                           /\ scheme'.drag_y = scheme.drag_y
                      ELSE /\ scheme'.dragging
                           /\ scheme'.drag_x = ev.a /\ scheme'.drag_y = ev.b
                           /\ scheme'.drag_x = scheme'.cursor_x
                           /\ scheme'.drag_y = scheme'.cursor_y
                           /\ scheme'.windows = scheme.windows ]_vars

\* C28, witness: a press on the close control of a window has put the quit
\* notification in its queue; no drag is on
C28_Witness ==
    /\ MouseCall(last)
    /\ last.arg.c > 0
    /\ ~scheme.dragging
    /\ scheme.order # <<>>
    /\ WindowExitContains(scheme.windows[Head(scheme.order)], last.arg.a, last.arg.b)
    /\ scheme.windows[Head(scheme.order)].events = <<QuitEvent>>

\* the window a drag was started on is gone.  A drag starts with its anchor
\* in the title bar of the window pressed, and window and anchor then move
\* by the same amounts (C13): while that window is open its title bar holds
\* the anchor
DraggedVanished(s) ==
    \A id \in DOMAIN s.windows :
        ~WindowTitleContains(s.windows[id], s.drag_x, s.drag_y)

\* C29: while a drag is on, a mouse event with the button released, and a
\* mouse event with the button held that comes when the dragged window is
\* gone, end the drag; in both cases every window stays where it was and
\* gets nothing in its queue
C29_DragEndsWithoutMoving ==
    [][ ( /\ MouseCall(last')
          /\ scheme.dragging
          /\ last'.arg.c <= 0 \/ DraggedVanished(scheme) )
        => /\ ~scheme'.dragging
           /\ scheme'.windows = scheme.windows ]_vars

----------------------------------------------------------------------------
(* Claims on the cascade *)

\* C30 as stated: every open, auto-placed or not, steps the x-counter and
\* the y-counter by 20, each going back to 20 by itself
C30_EveryOpenSteps ==
    [][ last'.op = "open" =>
          /\ scheme'.next_x = Stepped(scheme.next_x, ScreenW)
          /\ scheme'.next_y = Stepped(scheme.next_y, ScreenH) ]_vars

\* C30, amended: an open that asks for auto-placement (x < 0 and y < 0)
\* steps the x-counter and the y-counter by 20, each going back to 20 by
\* itself, the x-counter by the screen width and the y-counter by the
\* screen height; an open that gives a place leaves both counters as they
\* were
C30_AutoOpenSteps ==
    [][ last'.op = "open" =>
          IF AutoPlaced(last'.arg)
          THEN /\ scheme'.next_x = Stepped(scheme.next_x, ScreenW)
               /\ scheme'.next_y = Stepped(scheme.next_y, ScreenH)
          ELSE /\ scheme'.next_x = scheme.next_x
               /\ scheme'.next_y = scheme.next_y ]_vars

\* C30, witness: an open at a given place has left the counters where two
\* auto-placed opens before it had put them: x back at 20, y gone on to 60
C30_Witness ==
    /\ last.op = "open"
    /\ ~AutoPlaced(last.arg)
    /\ scheme.next_x = 20
    /\ scheme.next_y = 60

----------------------------------------------------------------------------
(* Claims on the compositor pass *)

\* the two rectangles have a point in common
Intersects(a, b) ==
    /\ a.x < b.x + b.w /\ b.x < a.x + a.w
    /\ a.y < b.y + b.h /\ b.y < a.y + a.h

\* the places of a sequence that hold a window layer
WindowLayers(layers) == {j \in 1..Len(layers) : layers[j].layer = "window"}

\* C31: in a compositor pass, for every rectangle drained, every window
\* whose rectangle with its title bar intersects the rectangle is drawn;
\* the windows are drawn in the reverse of the z-order, the window at index
\* 0 last; a window is drawn as the active one exactly when it is drawn
\* for index 0 of the z-order; and the cursor, when it is blended, is
\* blended after all windows
C31_BackToFrontCursorLast ==
    [][ last'.op = "redraw" =>
          \A i \in 1..Len(scheme.redraws) :
            LET rect   == scheme.redraws[i]
                layers == last'.ret[i].layers
                q      == WindowLayers(layers)
            IN  /\ \A k \in 1..Len(scheme.order) :
                      ( /\ scheme.order[k] \in DOMAIN scheme.windows
                        /\ Intersects(WindowRect(scheme.windows[scheme.order[k]]),
                                      rect) )
                      => \E j \in q : /\ layers[j].id = scheme.order[k]
                                      /\ layers[j].active = (k = 1)
                /\ \A j \in q : layers[j].id \in Range(scheme.order)
                /\ \A j \in q : layers[j].active
                                  => layers[j].id = scheme.order[1]
                /\ \A j1, j2 \in q :
                      j1 < j2 => \E k1, k2 \in 1..Len(scheme.order) :
                                    /\ k1 > k2
                                    /\ scheme.order[k1] = layers[j1].id
                                    /\ scheme.order[k2] = layers[j2].id
                /\ Cardinality({j \in q : layers[j].active}) <= 1
                /\ (scheme.order # <<>> /\ \E j \in q : layers[j].id = scheme.order[1])
                      => layers[CHOOSE j \in q : \A o \in q : o <= j].active
                /\ \A j \in 1..Len(layers) :
                      layers[j].layer = "cursor" =>
                          /\ j = Len(layers)
                          /\ \A o \in q : o < j ]_vars

\* C31, witness: a pass has drawn two windows for one rectangle, the one
\* behind first and the one in front after it as the active one, and has
\* blended the cursor last
C31_Witness ==
    /\ last.op = "redraw"
    /\ Len(scheme.order) = 2
    /\ scheme.order[1] # scheme.order[2]
    /\ \E i \in 1..Len(last.ret) :
          last.ret[i].layers =
              << Layer("background", 0, FALSE),
                 Layer("window", scheme.order[2], FALSE),
                 Layer("window", scheme.order[1], TRUE),
                 Layer("cursor", 0, FALSE) >>

\* the columns and the rows sent for a composited rectangle
ColumnsSent(c) == {x \in 0..(ScreenW - 1) : c.x1 <= x /\ x < c.x2}
RowsSent(s, c) == {spans(s, c)[j].row : j \in 1..Len(spans(s, c))}

\* the columns and the rows of the screen that lie in a rectangle
ColumnsIn(rect) == {x \in 0..(ScreenW - 1) : rect.x <= x /\ x - rect.x < rect.w}
RowsIn(rect) == {y \in 0..(ScreenH - 1) : rect.y <= y /\ y - rect.y < rect.h}

\* the two sets of columns and of rows hold the same pixels
SamePixels(columns1, rows1, columns2, rows2) ==
    IF columns1 = {} \/ rows1 = {}
    THEN columns2 = {} \/ rows2 = {}
    ELSE columns1 = columns2 /\ rows1 = rows2

\* C32: every rectangle the list holds is drained by a pass that sends, row
\* by row, spans that lie in the framebuffer: 0 <= x1 <= x2 <= width, every
\* row in 0..height-1, the pixels from row*width+x1 up to row*width+x2
\* within 0..width*height, the display told to seek to (row*width+x1)*4;
\* and the columns and rows sent are those of the rectangle that lie on the
\* screen, also when the rectangle begins left of or above the screen or
\* ends right of or below it
C32_SpansAreTheIntersection ==
    [][ (scheme.redraws # <<>> /\ scheme'.redraws = <<>>) =>
          /\ last'.op = "redraw"
          /\ \A i \in 1..Len(scheme.redraws) :
               LET c    == last'.ret[i]
                   rect == scheme.redraws[i]
                   sp   == spans(scheme, c)
               IN  /\ 0 <= c.x1 /\ c.x1 <= c.x2 /\ c.x2 <= scheme.width
                   /\ \A j \in 1..Len(sp) :
                        /\ 0 <= sp[j].row /\ sp[j].row < scheme.height
                        /\ sp[j].off1 = sp[j].row * scheme.width + c.x1
                        /\ sp[j].off2 = sp[j].row * scheme.width + c.x2
                        /\ 0 <= sp[j].off1 /\ sp[j].off1 <= sp[j].off2
                        /\ sp[j].off2 <= scheme.width * scheme.height
                        /\ sp[j].seek = (sp[j].row * scheme.width + c.x1) * 4
                   /\ SamePixels(ColumnsSent(c), RowsSent(scheme, c),
                                 ColumnsIn(rect), RowsIn(rect)) ]_vars

----------------------------------------------------------------------------
(* Claims on the whereabouts of the requests *)

\* how often request i lies in a list of packets
Count(packets, i) == Cardinality({k \in 1..Len(packets) : packets[k].id = i})

\* how often request i lies deferred, in the responses a loop is building,
\* or among the responses sent
Settled(i) ==
    Count(scheme.todo, i) + Count(driver.responses["event"], i)
        + Count(driver.responses["server"], i) + Count(driver.sent, i)

\* how often request i lies in the batch a loop is working through
Underway(i) ==
    Count(driver.packets["event"], i) + Count(driver.packets["server"], i)

\* C33 as stated: at every moment every request received so far lies in
\* exactly one of the deferred list, the responses a loop is building and
\* the responses sent, and lies there once
C33_InOneOfThreePlaces ==
    \A i \in 1..Len(driver.requests) : Settled(i) = 1

\* C33, amended: at every moment every request received so far lies in
\* exactly one of four places, and lies there once: the batch a loop has
\* received, or has taken out of the deferred list, and not yet worked
\* through; the deferred list; the responses a loop is building; the
\* responses sent.  So no request is lost, none is there twice and none is
\* sent twice
C33_InOneOfFourPlaces ==
    \A i \in 1..Len(driver.requests) :
        /\ Settled(i) + Underway(i) = 1
        /\ Count(driver.sent, i) <= 1

\* C33, witness: of three requests one is sent, one lies deferred and one
\* waits in the batch of the request loop
C33_Witness ==
    \E i, j, k \in 1..Len(driver.requests) :
        /\ Count(driver.sent, i) = 1
        /\ Count(scheme.todo, j) = 1
        /\ Count(driver.packets["server"], k) = 1

----------------------------------------------------------------------------
(* Claims on the deferred list and the queues *)

\* packet p targets a window that exists and has input pending
HasInput(p) ==
    /\ p.b \in DOMAIN scheme.windows
    /\ scheme.windows[p.b].events # <<>>

\* C34: the reads of the clients ask for one event at least, so a read of
\* a window with input pending returns a non-zero count, and the queues
\* are filled by the input events alone.  Whenever the lock is free, no
\* request in the deferred list targets an existing window whose queue of
\* pending input is non-empty
C34_NoDeferredReadyRead ==
    lockFree(driver) =>
        \A k \in 1..Len(scheme.todo) : ~HasInput(scheme.todo[k])

\* C34, witness: the lock is free, window 1 has input pending, and a read of
\* window 1 that was deferred while the queue was empty has left the
\* deferred list, answered by the input loop
C34_Witness ==
    /\ lockFree(driver)
    /\ 1 \in DOMAIN scheme.windows
    /\ scheme.windows[1].events # <<>>
    /\ scheme.todo = <<>>
    /\ \E k \in 1..Len(driver.sent), i \in 1..Len(driver.requests) :
          /\ driver.sent[k].id = i
          /\ driver.requests[i].a = SYS_READ
          /\ driver.requests[i].b = 1
          /\ driver.sent[k].a = 0 - ENOSYS

----------------------------------------------------------------------------
(* Claims on a drag with the request loop at work *)

\* C35: while a drag is on, a mouse event with the button held moves the
\* window that is at the front of the z-order when the event is handled,
\* by the way from the anchor to the event, moves no other window and
\* leaves the drag on.  So after an open, or after a close of the dragged
\* window that leaves a window open, the drag goes on and the next
\* held-button move is applied to the new front window
C35_DragFollowsTheFront ==
    [][ ( /\ MouseCall(last')
          /\ last'.arg.c > 0
          /\ scheme.dragging
          /\ scheme.order # <<>>
          /\ Head(scheme.order) \in DOMAIN scheme.windows )
        => LET ev == last'.arg
               id == Head(scheme.order)
               old == scheme.windows[id]
               now == scheme'.windows[id]
           IN  /\ scheme'.dragging
               /\ scheme'.order = scheme.order
               /\ now.x = old.x + (ev.a - scheme.drag_x)
               /\ now.y = old.y + (ev.b - scheme.drag_y)
               /\ \A o \in DOMAIN scheme.windows \ {id} :
                     scheme'.windows[o] = scheme.windows[o] ]_vars

\* C35, witness: a drag is on after a held-button move, and the window in
\* front is the one opened at (30,2), 22 high, whose title bar no mouse
\* event ever lies in; it has moved to (40,4), and its title bar does not
\* hold the anchor
C35_Witness ==
    /\ MouseCall(last)
    /\ last.arg.c > 0
    /\ scheme.dragging
    /\ scheme.order # <<>>
    /\ Head(scheme.order) \in DOMAIN scheme.windows
    /\ scheme.windows[Head(scheme.order)].h = 22
    /\ scheme.windows[Head(scheme.order)].x = 40
    /\ scheme.windows[Head(scheme.order)].y = 4
    /\ DraggedVanished(scheme)

----------------------------------------------------------------------------
(* Claims on the anchor of a drag *)

\* the way from the cursor to the origin of the front window
FrontOffset(s) ==
    LET window == s.windows[Head(s.order)]
    IN  <<window.x - s.cursor_x, window.y - s.cursor_y>>

\* C36: whenever the lock is free and a drag is on, the anchor of the drag
\* is the cursor position; and a mouse event of a drag that leaves the drag
\* on and the same window in front moves that window by as much as it moves
\* the cursor, so that over a drag of one window the window has moved by as
\* much as the cursor has since the press
C36_AnchorIsCursor ==
    /\ [](scheme.dragging =>
            /\ scheme.drag_x = scheme.cursor_x
            /\ scheme.drag_y = scheme.cursor_y)
    /\ [][ ( /\ MouseCall(last')
             /\ scheme.dragging /\ scheme'.dragging
             /\ scheme.order # <<>>
             /\ Head(scheme.order) \in DOMAIN scheme.windows )
           => /\ scheme'.order = scheme.order
              /\ FrontOffset(scheme') = FrontOffset(scheme) ]_vars

\* C36, witness: a compositor pass has run while a drag is on; the drag
\* began with a press at (25,10) on the window opened at (20,20) and has
\* taken cursor and anchor to (35,12) and the window to (30,22)
C36_Witness ==
    /\ last.op = "redraw"
    /\ scheme.dragging
    /\ scheme.cursor_x = 35 /\ scheme.cursor_y = 12
    /\ scheme.drag_x = 35 /\ scheme.drag_y = 12
    /\ scheme.order # <<>>
    /\ Head(scheme.order) \in DOMAIN scheme.windows
    /\ scheme.windows[Head(scheme.order)].h = 2
    /\ FrontOffset(scheme) = <<20 - 25, 20 - 10>>
====
